---- MODULE Spec2Model ----
(***************************************************************************)
(* Model of Task2ViusalizationDashboard.py: a Streamlit script that is     *)
(* executed top to bottom on every user interaction.  One script run is    *)
(* one atomic step: load_data (memoized by st.cache_data), the three       *)
(* sidebar filters, the empty-table guard with st.stop(), the four metric  *)
(* means and the five views.                                               *)
(*                                                                         *)
(* A DataFrame is a sequence of rows; a selection of it (boolean mask,     *)
(* sort) is a sequence of row positions, as pandas keeps the index labels. *)
(* A value that may be missing (NaN, or a widget without stored state) is  *)
(* <<>> when missing and <<v>> otherwise.  A mean is the pair              *)
(* <<sum, count>> over the non-missing values.                             *)
(***************************************************************************)
EXTENDS Integers, Sequences, FiniteSets, TLC

\* ------------------------------------------------------------ bounds ----
MaxRows == 2
MaxEdits == 1

Countries == {"A", "B"}
Years == {2000, 2001}
Levels == {"Low", "High"}

Missing == <<>>
Some(v) == <<v>>
IsSome(o) == o # <<>>
Val(o) == o[1]

\* The rows of the input files.  Every family varies the country, the year
\* and one further column: the scarcity level (the third filter facet), ...
FacetRows ==
    [country : Countries, year : Years, scarcity : Levels, total : {10},
     agricultural : {60}, per_capita : {100}, depletion : {Some(5)}]

\* ... the total consumption (the sort key of the sector view), ...
SectorRows ==
    [country : Countries, year : Years, scarcity : {"Low"}, total : {10, 20},
     agricultural : {60}, per_capita : {100}, depletion : {Some(5)}]

\* ... the per-capita use (the sort key of the ranking, equal or not), ...
RankRows ==
    [country : Countries, year : Years, scarcity : {"Low"}, total : {10},
     agricultural : {60}, per_capita : {100, 200}, depletion : {Some(5)}]

\* ... or the depletion rate, present or missing (an empty cell of the CSV
\* is read as NaN).
TrendRows ==
    [country : Countries, year : Years, scarcity : {"Low"}, total : {10},
     agricultural : {60}, per_capita : {100}, depletion : {Missing, Some(5)}]

\* Rows of the files used to exercise the loader and its cache.
LoaderRows ==
    { [country |-> "A", year |-> 2000, scarcity |-> "Low", total |-> 10,
       agricultural |-> 60, per_capita |-> 100, depletion |-> Some(5)],
      [country |-> "B", year |-> 2001, scarcity |-> "High", total |-> 20,
       agricultural |-> 60, per_capita |-> 200, depletion |-> Some(5)] }

SeqsUpTo(R, n) == UNION { [1..k -> R] : k \in 0..n }

\* ------------------------------------------------------- the CSV file ----
\* Number of columns of the dataset: the names assigned by the fallback,
\* and the number of fields of every data line.
NumColumns == 10

\* The header line, as far as load_data can tell header lines apart: its
\* number of fields, and whether one of them is the fused name
\* 'CountryYearTotal Water Consumption (Billion Cubic Meters)'.
\* Its cells are non-empty, non-numeric text.  A fused header is that one
\* name alone, or a line of ten fields that holds it.
WellFormedHeader == [fields |-> NumColumns, fused |-> FALSE]
FusedHeaders == { [fields |-> n, fused |-> TRUE] : n \in {1, NumColumns} }

DataFiles == { [header |-> WellFormedHeader, lines |-> t] :
                 t \in SeqsUpTo(FacetRows, MaxRows) \cup SeqsUpTo(SectorRows, MaxRows)
                       \cup SeqsUpTo(RankRows, MaxRows) \cup SeqsUpTo(TrendRows, MaxRows) }
LoaderFiles == { [header |-> h, lines |-> t] :
                   h \in {WellFormedHeader} \cup FusedHeaders,
                   t \in SeqsUpTo(LoaderRows, MaxRows) }

\* pd.read_csv(path): the first line names the columns, every other line is
\* a row.  A header with fewer fields than the data lines is accepted (the
\* leading data fields become the index).
read_csv(f) ==
    [ok |-> TRUE, fused_column |-> f.header.fused, width |-> f.header.fields,
     header_as_row |-> FALSE, rows |-> f.lines]

\* pd.read_csv(path, header=None): every line is a row, the first line
\* included; the width is the first line's number of fields and a later
\* line with more fields is a ParserError.
read_csv_noheader(f) ==
    IF Len(f.lines) > 0 /\ NumColumns > f.header.fields
    THEN [ok |-> FALSE, fused_column |-> FALSE, width |-> 0,
          header_as_row |-> FALSE, rows |-> <<>>]
    ELSE [ok |-> TRUE, fused_column |-> FALSE, width |-> f.header.fields,
          header_as_row |-> TRUE, rows |-> f.lines]

\* df.columns = [ten names]: ValueError unless df has ten columns.
set_columns(d) ==
    IF d.ok /\ d.width = NumColumns THEN d ELSE [d EXCEPT !.ok = FALSE]

\* Rows of a loaded DataFrame.
RowCount(d) == Len(d.rows) + (IF d.header_as_row THEN 1 ELSE 0)

NoCache == [filled |-> FALSE, table |-> read_csv([header |-> WellFormedHeader, lines |-> <<>>])]

\* The body of load_data: the DataFrame (or the failure) and the number of
\* times the file was read.
load_data_body(f) ==
    LET first == read_csv(f) IN
    IF first.fused_column
    THEN [df |-> set_columns(read_csv_noheader(f)), reads |-> 2]
    ELSE [df |-> first, reads |-> 1]

\* @st.cache_data load_data(): no argument, so one cache entry; a call that
\* raises stores nothing.
load_data_uncached(c, f) ==
    LET r == load_data_body(f) IN
    [ok |-> r.df.ok, df |-> r.df, reads |-> r.reads,
     cache |-> IF r.df.ok THEN [filled |-> TRUE, table |-> r.df] ELSE c]

\* load_data without its decorator.
load_data_no_memo(c, f) == load_data_uncached(c, f)

\* A cache entry that is dropped when the file no longer parses to it.
load_data_revalidating(c, f) ==
    IF c.filled /\ load_data_body(f).df = c.table
    THEN [ok |-> TRUE, df |-> c.table, reads |-> 0, cache |-> c]
    ELSE load_data_uncached(c, f)

load_data(c, f) ==
    IF c.filled
    THEN [ok |-> TRUE, df |-> c.table, reads |-> 0, cache |-> c]
    ELSE load_data_uncached(c, f)

\* ------------------------------------------------- DataFrame operations ----
Idx(n) == [i \in 1..n |-> i]

SeqRange(s) == { s[i] : i \in 1..Len(s) }

\* A cell of a numeric column; only the depletion column has empty cells.
Cell(r, field) == IF field = "depletion" THEN r.depletion ELSE Some(r[field])

RECURSIVE SumCells(_, _, _)
SumCells(rows, idx, field) ==
    IF idx = <<>> THEN 0
    ELSE Val(Cell(rows[Head(idx)], field)) + SumCells(rows, Tail(idx), field)

\* Series.mean(): NaN cells are skipped; count = 0 stands for a NaN result.
mean(rows, idx, field) ==
    LET present == SelectSeq(idx, LAMBDA i : IsSome(Cell(rows[i], field))) IN
    [sum |-> SumCells(rows, present, field), count |-> Len(present)]

\* DataFrame.sort_values(by=field, ascending=...): rows with equal keys keep
\* their order (the sort is stable on frames this small).
RECURSIVE sort_values(_, _, _, _)
sort_values(rows, idx, field, ascending) ==
    IF idx = <<>> THEN <<>>
    ELSE LET n == Len(idx)
             init == sort_values(rows, SubSeq(idx, 1, n - 1), field, ascending)
             i == idx[n]
             Before(j) == IF ascending THEN rows[j][field] <= rows[i][field]
                                       ELSE rows[j][field] >= rows[i][field]
             k == Cardinality({ p \in 1..Len(init) : Before(init[p]) })
         IN SubSeq(init, 1, k) \o <<i>> \o SubSeq(init, k + 1, Len(init))

\* ------------------------------------------------------- filter engine ----
year_upper_exclusive(r, countries, year_range, scarcity) ==
    /\ r.country \in countries
    /\ r.year >= year_range[1] /\ r.year < year_range[2]
    /\ r.scarcity \in scarcity

\* The boolean mask of lines 100-104.
filter_mask(r, countries, year_range, scarcity) ==
    /\ r.country \in countries
    /\ r.year >= year_range[1] /\ r.year <= year_range[2]
    /\ r.scarcity \in scarcity

filtered_df(rows, countries, year_range, scarcity) ==
    SelectSeq(Idx(Len(rows)),
              LAMBDA i : filter_mask(rows[i], countries, year_range, scarcity))

\* Sidebar options and defaults.
all_countries(rows) == { rows[i].country : i \in 1..Len(rows) }
scarcity_levels(rows) == { rows[i].scarcity : i \in 1..Len(rows) }
years_of(rows) == { rows[i].year : i \in 1..Len(rows) }
min_year(rows) == CHOOSE y \in years_of(rows) : \A z \in years_of(rows) : y <= z
max_year(rows) == CHOOSE y \in years_of(rows) : \A z \in years_of(rows) : y >= z

\* ----------------------------------------------------- metrics and views ----
key_metrics(rows, idx) ==
    [avg_consumption |-> mean(rows, idx, "total"),
     avg_per_capita |-> mean(rows, idx, "per_capita"),
     avg_agri |-> mean(rows, idx, "agricultural"),
     avg_depletion |-> mean(rows, idx, "depletion")]

\* filtered_df.groupby('Country')[total].mean()
map_data(rows, idx) ==
    [c \in { rows[i].country : i \in SeqRange(idx) } |->
        mean(rows, SelectSeq(idx, LAMBDA i : rows[i].country = c), "total")]

\* filtered_df[filtered_df['Year'] == y]
year_slice(rows, idx, y) == SelectSeq(idx, LAMBDA i : rows[i].year = y)

\* The sector view: the slice sorted by total consumption, or no chart.
sector_view(rows, idx, y) ==
    LET year_df == year_slice(rows, idx, y) IN
    IF year_df # <<>>
    THEN [chart |-> TRUE, warning |-> FALSE, year |-> y,
          rows |-> sort_values(rows, year_df, "total", TRUE)]
    ELSE [chart |-> FALSE, warning |-> TRUE, year |-> y, rows |-> <<>>]

capita_view_ascending(rows, idx, y) ==
    LET capita_df == year_slice(rows, idx, y) IN
    IF capita_df # <<>>
    THEN [chart |-> TRUE, warning |-> FALSE, year |-> y,
          rows |-> sort_values(rows, capita_df, "per_capita", TRUE)]
    ELSE [chart |-> FALSE, warning |-> TRUE, year |-> y, rows |-> <<>>]

\* The per-capita ranking view: the slice sorted by per-capita use,
\* descending, or no chart.
capita_view(rows, idx, y) ==
    LET capita_df == year_slice(rows, idx, y) IN
    IF capita_df # <<>>
    THEN [chart |-> TRUE, warning |-> FALSE, year |-> y,
          rows |-> sort_values(rows, capita_df, "per_capita", FALSE)]
    ELSE [chart |-> FALSE, warning |-> TRUE, year |-> y, rows |-> <<>>]

pivot_groups(rows, idx) == { <<rows[i].year, rows[i].country>> : i \in SeqRange(idx) }

pivot_agg(rows, idx, g) ==
    mean(rows, SelectSeq(idx, LAMBDA i : rows[i].year = g[1] /\ rows[i].country = g[2]),
         "depletion")

pivot_table_keep_nan(rows, idx) ==
    LET kept == pivot_groups(rows, idx) IN
    [index |-> { g[1] : g \in kept }, columns |-> { g[2] : g \in kept },
     cells |-> [g \in kept |-> pivot_agg(rows, idx, g)]]

\* filtered_df.pivot_table(index='Year', columns='Country', values=depletion):
\* the mean per (year, country); with the default dropna=True a group whose
\* mean is NaN is dropped before the groups are spread over rows and columns.
pivot_table(rows, idx) ==
    LET kept == { g \in pivot_groups(rows, idx) : pivot_agg(rows, idx, g).count > 0 } IN
    [index |-> { g[1] : g \in kept }, columns |-> { g[2] : g \in kept },
     cells |-> [g \in kept |-> pivot_agg(rows, idx, g)]]

\* --------------------------------------------------------- one script run ----
VARIABLES
    file,      \* cleaned_global_water_consumption.csv on disk
    mtime,     \* number of times the file was rewritten since the process started
    cache,     \* the st.cache_data entry of load_data
    widgets,   \* the session's widget state; a widget without state is Missing
    out        \* what the last script run read, computed and displayed, and
               \* (out.at) the file's modification count when it ran

vars == <<file, mtime, cache, widgets, out>>

NoWidgets ==
    [countries |-> Missing, year_range |-> Missing, scarcity |-> Missing,
     sector_year |-> Missing, capita_year |-> Missing]

\* A widget returns its stored value, or its default when it has none.
Value(o, default) == IF IsSome(o) THEN Val(o) ELSE default

Blank ==
    [status |-> "idle", at |-> 0, reads |-> 0, df |-> Missing, filtered |-> Missing,
     metrics |-> Missing, map |-> Missing, sector |-> Missing,
     rainfall |-> Missing, depletion |-> Missing, capita |-> Missing]

\* A sector view that ends the run when its year has no rows.
RenderStopAtEmptyYear(o, rows, idx, sector_year, capita_year) ==
    IF year_slice(rows, idx, sector_year) = <<>>
    THEN [o EXCEPT !.status = "rendered",
                   !.metrics = Some(key_metrics(rows, idx)),
                   !.map = Some(map_data(rows, idx)),
                   !.sector = Some(sector_view(rows, idx, sector_year))]
    ELSE [o EXCEPT !.status = "rendered",
                   !.metrics = Some(key_metrics(rows, idx)),
                   !.map = Some(map_data(rows, idx)),
                   !.sector = Some(sector_view(rows, idx, sector_year)),
                   !.rainfall = Some(idx),
                   !.depletion = Some(pivot_table(rows, idx)),
                   !.capita = Some(capita_view(rows, idx, capita_year))]

\* Lines 110-284: the metrics and the five views of a non-empty filtered_df.
Render(o, rows, idx, sector_year, capita_year) ==
    [o EXCEPT !.status = "rendered",
              !.metrics = Some(key_metrics(rows, idx)),
              !.map = Some(map_data(rows, idx)),
              !.sector = Some(sector_view(rows, idx, sector_year)),
              !.rainfall = Some(idx),
              !.depletion = Some(pivot_table(rows, idx)),
              !.capita = Some(capita_view(rows, idx, capita_year))]

\* Both year sliders reading one widget state.
ViewsSharedSlider(o, w, rows, idx) ==
    LET sy == Value(w.sector_year, max_year(rows))
    IN [widgets |-> [w EXCEPT !.sector_year = Some(sy), !.capita_year = Some(sy)],
        out |-> Render(o, rows, idx, sy, sy)]

\* Lines 165 and 259-265: the two year sliders, then the run's output.
Views(o, w, rows, idx) ==
    LET sy == Value(w.sector_year, max_year(rows))
        cy == Value(w.capita_year, max_year(rows))
    IN [widgets |-> [w EXCEPT !.sector_year = Some(sy), !.capita_year = Some(cy)],
        out |-> Render(o, rows, idx, sy, cy)]

BodyUnguarded(o, w, rows, idx) == { Views(o, w, rows, idx) }

\* Lines 106-284, the possible outcomes.  An empty filtered_df ends the run
\* at st.stop(): the two year sliders below it are not reached, and the
\* Streamlit release decides whether their state is kept or discarded.
Body(o, w, rows, idx) ==
    IF idx = <<>>
    THEN { [widgets |-> w2, out |-> [o EXCEPT !.status = "nodata"]] :
             w2 \in {w, [w EXCEPT !.sector_year = Missing, !.capita_year = Missing]} }
    ELSE { Views(o, w, rows, idx) }

\* The whole script, the possible outcomes.  The Streamlit release decides
\* whether a slider whose min_value equals its max_value is accepted.
Script(c, f, w) ==
    LET ld == load_data(c, f)
        started == [Blank EXCEPT !.reads = ld.reads]
    IN
    IF ~ld.ok
    THEN { [cache |-> ld.cache, widgets |-> w,
            out |-> [started EXCEPT !.status = "load_error"]] }
    ELSE
    LET rows == ld.df.rows
        loaded == [started EXCEPT !.df = Some(ld.df)]
        crash == [cache |-> ld.cache, widgets |-> w,
                  out |-> [loaded EXCEPT !.status = "error"]]
    IN
    \* int(df['Year'].min()), int(df['Year'].max()) raise on an empty frame
    \* and on a Year column that holds the header's text.
    IF ld.df.header_as_row \/ rows = <<>>
    THEN { crash }
    ELSE
    LET sc == Value(w.countries, all_countries(rows))
        yr == Value(w.year_range, <<min_year(rows), max_year(rows)>>)
        ss == Value(w.scarcity, scarcity_levels(rows))
        w1 == [w EXCEPT !.countries = Some(sc), !.year_range = Some(yr),
                        !.scarcity = Some(ss)]
        idx == filtered_df(rows, sc, yr, ss)
    IN (IF min_year(rows) = max_year(rows) THEN { crash } ELSE {})
       \cup { [cache |-> ld.cache, widgets |-> b.widgets, out |-> b.out] :
                b \in Body([loaded EXCEPT !.filtered = Some(idx)], w1, rows, idx) }

\* ------------------------------------------------------------- actions ----
Cycle(w) ==
    \E r \in Script(cache, file, w) :
        /\ cache' = r.cache
        /\ widgets' = r.widgets
        /\ out' = [r.out EXCEPT !.at = mtime]
        /\ UNCHANGED <<file, mtime>>

SidebarShown == out.status \in {"nodata", "rendered"}
SlidersShown == out.status = "rendered"
Rows == Val(out.df).rows

\* The browser connects or reloads: the script runs with the stored state.
Rerun == Cycle(widgets)

SetCountries ==
    /\ SidebarShown
    /\ \E S \in SUBSET all_countries(Rows) :
          /\ Some(S) # widgets.countries
          /\ Cycle([widgets EXCEPT !.countries = Some(S)])

SetYearRange ==
    /\ SidebarShown
    /\ \E lo \in min_year(Rows)..max_year(Rows) :
       \E hi \in lo..max_year(Rows) :
          /\ Some(<<lo, hi>>) # widgets.year_range
          /\ Cycle([widgets EXCEPT !.year_range = Some(<<lo, hi>>)])

SetScarcity ==
    /\ SidebarShown
    /\ \E S \in SUBSET scarcity_levels(Rows) :
          /\ Some(S) # widgets.scarcity
          /\ Cycle([widgets EXCEPT !.scarcity = Some(S)])

SetSectorYear ==
    /\ SlidersShown
    /\ \E y \in min_year(Rows)..max_year(Rows) :
          /\ Some(y) # widgets.sector_year
          /\ Cycle([widgets EXCEPT !.sector_year = Some(y)])

SetCapitaYear ==
    /\ SlidersShown
    /\ \E y \in min_year(Rows)..max_year(Rows) :
          /\ Some(y) # widgets.capita_year
          /\ Cycle([widgets EXCEPT !.capita_year = Some(y)])

\* The file is rewritten on disk while the process runs.
ModifyFile ==
    /\ mtime < MaxEdits
    /\ \E f \in LoaderFiles :
          /\ f # file
          /\ file' = f
    /\ mtime' = mtime + 1
    /\ UNCHANGED <<cache, widgets, out>>

Started == mtime = 0 /\ cache = NoCache /\ widgets = NoWidgets /\ out = Blank

Init == file \in DataFiles /\ Started
InitLoader == file \in LoaderFiles /\ Started

NextUI ==
    \/ Rerun
    \/ SetCountries
    \/ SetYearRange
    \/ SetScarcity
    \/ SetSectorYear
    \/ SetCapitaYear

Next == NextUI \/ ModifyFile

\* The dashboard over a static file.
Spec == Init /\ [][NextUI]_vars
\* The loader, its fallback and its cache, over a file that may be rewritten.
SpecLoader == InitLoader /\ [][Next]_vars

\* ============================================================== claims ====
Loaded == IsSome(out.df)
Filtered == Val(out.filtered)
SelCountries == Val(widgets.countries)
SelYears == Val(widgets.year_range)
SelScarcity == Val(widgets.scarcity)
Strict(s) == \A p, q \in 1..Len(s) : p < q => s[p] < s[q]

\* C1: the filtered table holds exactly the rows of the table whose country
\* is selected, whose year lies in the selected inclusive interval and whose
\* scarcity level is selected: each once, in the table's order, none else.
C1_FilterExact ==
    IsSome(out.filtered) =>
        /\ Strict(Filtered)
        /\ SeqRange(Filtered) \subseteq 1..Len(Rows)
        /\ \A i \in 1..Len(Rows) :
              i \in SeqRange(Filtered) <=>
                 /\ Rows[i].country \in SelCountries
                 /\ SelYears[1] <= Rows[i].year
                 /\ Rows[i].year <= SelYears[2]
                 /\ Rows[i].scarcity \in SelScarcity

C1_Witness ==
    /\ out.status = "rendered"
    /\ Len(Filtered) < Len(Rows)
    /\ SelYears[1] = SelYears[2]
    /\ \E i \in 1..Len(Rows) : Rows[i].year # SelYears[1]

\* C2: a run whose filtered table is empty shows the 'no data' error and
\* stops: no metric and no view is computed; metrics and views exist only
\* for a non-empty filtered table.
C2_EmptyStops ==
    LET anyComputed == \/ IsSome(out.metrics) \/ IsSome(out.map)
                       \/ IsSome(out.sector) \/ IsSome(out.rainfall)
                       \/ IsSome(out.depletion) \/ IsSome(out.capita)
    IN
    /\ (IsSome(out.filtered) /\ Filtered = <<>>) =>
          (out.status = "nodata" /\ ~anyComputed)
    /\ anyComputed => (IsSome(out.filtered) /\ Filtered # <<>>)
    /\ out.status = "nodata" => (IsSome(out.filtered) /\ Filtered = <<>>)

C2_Witness ==
    /\ out.status = "nodata"
    /\ Len(Rows) > 0
    /\ SelCountries # {}

\* C3: with a non-empty filtered table, a year-sliced view whose year
\* matches no filtered row shows its warning and no chart, a year-sliced
\* view whose year matches a row shows its chart, and the map, the rainfall
\* scatter and the depletion trend are rendered in either case.
C3_EmptyYearIsLocal ==
    (IsSome(out.filtered) /\ Filtered # <<>>) =>
        LET HasYear(y) == \E i \in SeqRange(Filtered) : Rows[i].year = y IN
        /\ IsSome(out.sector) /\ IsSome(out.capita)
        /\ Val(out.sector).chart = HasYear(Val(widgets.sector_year))
        /\ Val(out.sector).warning = ~HasYear(Val(widgets.sector_year))
        /\ Val(out.capita).chart = HasYear(Val(widgets.capita_year))
        /\ Val(out.capita).warning = ~HasYear(Val(widgets.capita_year))
        /\ IsSome(out.map) /\ IsSome(out.rainfall) /\ IsSome(out.depletion)
        /\ IsSome(out.metrics)

C3_Witness ==
    /\ out.status = "rendered"
    /\ Val(out.sector).warning /\ ~Val(out.sector).chart
    /\ Val(out.capita).chart
    /\ IsSome(out.depletion) /\ IsSome(out.rainfall)

\* A step in which the script ran (the file is untouched by it).
Ran == file' = file /\ out' # out

\* C4: while the file is not rewritten, the call of load_data that fills the
\* cache reads the file and returns the Table it stores, and every call
\* after it reads nothing, returns that Table and leaves the cache as it is.
C4_ReadOnce ==
    [][ (Ran /\ mtime = 0) =>
          /\ cache.filled =>
                (out'.reads = 0 /\ out'.df = Some(cache.table) /\ cache' = cache)
          /\ (~cache.filled /\ cache'.filled) =>
                (out'.reads >= 1 /\ out'.df = Some(cache'.table)) ]_vars

C4_Witness ==
    /\ mtime = 0
    /\ cache.filled
    /\ out.reads = 0
    /\ out.status = "rendered"

\* C5, as claimed: a script run made after the file was last rewritten works
\* on the Table that the file's current contents load to.
C5_Original_FreshAfterModify ==
    (out.at = mtime /\ Loaded) => Val(out.df) = load_data_body(file).df

\* C5, amended: the cache entry is not keyed by the modification time.  A
\* run made after the file was rewritten, with the cache filled, reads
\* nothing and works on the cached Table, whatever the file now holds.
C5_StaleAfterModify ==
    [][ (Ran /\ mtime > 0 /\ cache.filled) =>
          (out'.reads = 0 /\ out'.df = Some(cache.table) /\ cache' = cache) ]_vars

C5_Witness ==
    /\ out.at = mtime /\ mtime > 0
    /\ Loaded /\ out.reads = 0
    /\ load_data_body(file).df.ok
    /\ Val(out.df) # load_data_body(file).df

\* C6, as claimed: a load that takes the fallback (two reads of the file)
\* does not fail and yields as many rows as the file has data lines.
C6_FallbackRowCount ==
    (out.at = mtime /\ out.reads = 2) =>
        /\ out.status # "load_error"
        /\ Loaded
        /\ RowCount(Val(out.df)) = Len(file.lines)

\* C7, as claimed: the pivot has one row per year and one column per country
\* of the filtered table.
C7_Original_PivotAllKeys ==
    IsSome(out.depletion) =>
        /\ Val(out.depletion).index = { Rows[i].year : i \in SeqRange(Filtered) }
        /\ Val(out.depletion).columns = { Rows[i].country : i \in SeqRange(Filtered) }

\* C7, amended: the pivot has one row per year, and one column per country,
\* for which some filtered row has a depletion value; so all years and
\* countries of the filtered table when no depletion value is missing.
C7_PivotPresentKeys ==
    IsSome(out.depletion) =>
        LET present == { i \in SeqRange(Filtered) : Rows[i].depletion # Missing } IN
        /\ Val(out.depletion).index = { Rows[i].year : i \in present }
        /\ Val(out.depletion).columns = { Rows[i].country : i \in present }
        /\ DOMAIN Val(out.depletion).cells =
              { <<Rows[i].year, Rows[i].country>> : i \in present }

C7_Witness ==
    /\ IsSome(out.depletion)
    /\ Val(out.depletion).index # {}
    /\ \E i \in SeqRange(Filtered) :
          /\ Rows[i].depletion = Missing
          /\ Rows[i].year \notin Val(out.depletion).index
          /\ Rows[i].country \notin Val(out.depletion).columns

\* C8: the ranking is the filtered rows of the ranking year, each exactly
\* once, in non-increasing order of per-capita use.
C8_RankingPermutation ==
    IsSome(out.capita) =>
        LET r == Val(out.capita).rows
            slice == { i \in SeqRange(Filtered) :
                         Rows[i].year = Val(widgets.capita_year) }
        IN /\ SeqRange(r) = slice
           /\ Len(r) = Cardinality(slice)
           /\ \A p, q \in 1..Len(r) :
                 p < q => Rows[r[p]].per_capita >= Rows[r[q]].per_capita

C8_Witness ==
    /\ IsSome(out.capita)
    /\ LET r == Val(out.capita).rows IN
       /\ Len(r) = 2
       /\ Rows[r[1]].per_capita = Rows[r[2]].per_capita
       /\ Rows[r[1]].country # Rows[r[2]].country

\* With all countries, the full year range and all scarcity levels of
\* the table selected, the filtered table is the whole table.
C9_FullKeepsAll ==
    (/\ IsSome(out.filtered)
     /\ SelCountries = { Rows[i].country : i \in 1..Len(Rows) }
     /\ \A i \in 1..Len(Rows) : SelYears[1] <= Rows[i].year /\ Rows[i].year <= SelYears[2]
     /\ SelScarcity = { Rows[i].scarcity : i \in 1..Len(Rows) })
    => Filtered = Idx(Len(Rows))

\* C9: whenever all countries, the full year range and all scarcity levels
\* of the table are selected, the filtered table is the whole table, no row
\* dropped; and the first run of a session, whose three sidebar widgets have
\* no state yet and return their defaults, keeps the whole table.
C9_FullSelection ==
    /\ []C9_FullKeepsAll
    /\ [][ (widgets = NoWidgets /\ IsSome(out'.filtered)) =>
             out'.filtered = Some(Idx(Len(Val(out'.df).rows))) ]_vars

C9_Witness ==
    /\ out.status = "rendered"
    /\ Len(Rows) = MaxRows
    /\ Filtered = Idx(Len(Rows))
    /\ Rows[1].year # Rows[2].year

SelectionSame ==
    /\ widgets'.countries = widgets.countries
    /\ widgets'.year_range = widgets.year_range
    /\ widgets'.scarcity = widgets.scarcity

SharedOutputSame ==
    /\ out'.filtered = out.filtered
    /\ out'.metrics = out.metrics
    /\ out'.map = out.map
    /\ out'.rainfall = out.rainfall
    /\ out'.depletion = out.depletion

\* C10: a run in which the selection is unchanged and one year slider has a
\* new value leaves the other slider, the other slider's view, the filtered
\* table, the metrics, the map, the scatter and the trend as they were.
C10_SlidersIndependent ==
    [][ (out.status = "rendered" /\ SelectionSame) =>
          /\ widgets'.sector_year # widgets.sector_year =>
                /\ widgets'.capita_year = widgets.capita_year
                /\ out'.capita = out.capita
                /\ SharedOutputSame
          /\ widgets'.capita_year # widgets.capita_year =>
                /\ widgets'.sector_year = widgets.sector_year
                /\ out'.sector = out.sector
                /\ SharedOutputSame ]_vars

C10_Witness ==
    /\ out.status = "rendered"
    /\ widgets.sector_year # widgets.capita_year
    /\ Val(out.sector).year # Val(out.capita).year
    /\ Val(out.sector).chart # Val(out.capita).chart

====
